---- MODULE Spec2Model ----
(***************************************************************************)
(* Handshake_State of src/tls/tls_handshake_state.cpp: the transition      *)
(* tracker (two 32-bit masks), the message store (thirteen owning slots),  *)
(* the queries derived from the store, and the PRF selection.              *)
(***************************************************************************)
EXTENDS Integers, Sequences, FiniteSets, TLC

(***************************************************************************)
(* Bounds of the model.                                                    *)
(***************************************************************************)

\* The tracker operations are called with the first MaxKind handshake types
\* of KindOrder (and with one value outside the enumeration).
MaxKind == 4

\* Message objects are the pointers 1..MaxMsg; 0 is the null pointer.
MaxMsg == 2

\* At most MaxSets setter calls are made on the message store.
MaxSets == 2

\* The store's specification calls the tracker with MaxMixedKind handshake types.
MaxMixedKind == 1

(***************************************************************************)
(* Handshake_Type.                                                         *)
(***************************************************************************)

KindOrder ==
  << "HANDSHAKE_NONE", "CLIENT_HELLO", "CLIENT_HELLO_SSLV2", "SERVER_HELLO",
     "FINISHED", "HELLO_REQUEST", "HELLO_VERIFY_REQUEST", "CERTIFICATE",
     "CERTIFICATE_URL", "CERTIFICATE_STATUS", "SERVER_KEX",
     "CERTIFICATE_REQUEST", "SERVER_HELLO_DONE", "CERTIFICATE_VERIFY",
     "CLIENT_KEX", "NEXT_PROTOCOL", "NEW_SESSION_TICKET", "HANDSHAKE_CCS" >>

\* Every enumerator of Handshake_Type that the switch of
\* bitmask_for_handshake_type names.
HandshakeTypes == { KindOrder[i] : i \in 1..Len(KindOrder) }

\* A value of the enumeration's underlying type that is no enumerator.
UnknownType == "UNKNOWN_TYPE"

\* The arguments the tracker operations are called with.
OpKinds == { KindOrder[i] : i \in 1..MaxKind } \cup {UnknownType}

(***************************************************************************)
(* u32bit masks, as the set of the positions (0..31) of their one bits.    *)
(***************************************************************************)

\* The mask 0.
NoBits == {}

\* a & b
BitAnd(a, b) == a \cap b

\* a | b
BitOr(a, b) == a \cup b

\* 1 << n
Shl1(n) == {n}

(***************************************************************************)
(* bitmask_for_handshake_type: the mask of a type, or Internal_Error for a *)
(* value that the switch does not name.                                    *)
(***************************************************************************)

Returns(v) == [err |-> "none", val |-> v]

Throws(e) == [err |-> e, val |-> NoBits]

HandshakeTypeCase(type) ==
  CASE type = "HELLO_VERIFY_REQUEST" -> Returns(Shl1(0))
    [] type = "HELLO_REQUEST"        -> Returns(Shl1(1))
    [] type = "CLIENT_HELLO"         -> Returns(Shl1(2))
    [] type = "CLIENT_HELLO_SSLV2"   -> Returns(Shl1(2))
    [] type = "SERVER_HELLO"         -> Returns(Shl1(3))
    [] type = "CERTIFICATE"          -> Returns(Shl1(4))
    [] type = "CERTIFICATE_URL"      -> Returns(Shl1(5))
    [] type = "CERTIFICATE_STATUS"   -> Returns(Shl1(6))
    [] type = "SERVER_KEX"           -> Returns(Shl1(7))
    [] type = "CERTIFICATE_REQUEST"  -> Returns(Shl1(8))
    [] type = "SERVER_HELLO_DONE"    -> Returns(Shl1(9))
    [] type = "CERTIFICATE_VERIFY"   -> Returns(Shl1(10))
    [] type = "CLIENT_KEX"           -> Returns(Shl1(11))
    [] type = "NEXT_PROTOCOL"        -> Returns(Shl1(12))
    [] type = "NEW_SESSION_TICKET"   -> Returns(Shl1(13))
    [] type = "HANDSHAKE_CCS"        -> Returns(Shl1(14))
    [] type = "FINISHED"             -> Returns(Shl1(15))
    [] type = "HANDSHAKE_NONE"       -> Returns(NoBits)
    [] OTHER                         -> Throws("Internal_Error")

\* A switch in which SERVER_HELLO was given the client hello's code point.
bitmask_with_shared_server_hello(type) ==
  IF type = "SERVER_HELLO" THEN Returns(Shl1(2)) ELSE HandshakeTypeCase(type)

bitmask_for_handshake_type(type) == HandshakeTypeCase(type)

(***************************************************************************)
(* State.                                                                  *)
(***************************************************************************)

VARIABLES
  m_hand_received_mask,   \* u32bit: every type ever passed to confirm_transition_to
  m_hand_expecting_mask,  \* u32bit: the types legal as the next message
  m_version,              \* Protocol_Version
  suite,                  \* Ciphersuite (public member)
  store,                  \* the thirteen std::unique_ptr members, by member name
  last,                   \* the last call: operation, argument, result
  expected_since,         \* history: arguments of set_expected_next since the last confirm_transition_to
  phase,                  \* history: "fresh" after construction, "armed" once set_expected_next(k), k # HANDSHAKE_NONE,
                          \*   has been called, "confirmed" from a successful confirm_transition_to to the next such call
  ever_set,               \* history: the slots whose setter has been called
  nsets                   \* history: number of setter calls

vars == << m_hand_received_mask, m_hand_expecting_mask, m_version, suite, store,
           last, expected_since, phase, ever_set, nsets >>

(***************************************************************************)
(* Protocol_Version and Ciphersuite values the handshake is run with.      *)
(***************************************************************************)

KnownVersions == { "SSL_V3", "TLS_V10", "TLS_V11", "TLS_V12", "DTLS_V10", "DTLS_V12" }

\* A version code that is none of the known ones.
UnknownVersion == "UNKNOWN_VERSION"

Versions == KnownVersions \cup {UnknownVersion}

\* Protocol_Version::supports_ciphersuite_specific_prf
supports_ciphersuite_specific_prf(version) == version \in { "TLS_V12", "DTLS_V12" }

\* The default-constructed Ciphersuite: no suite chosen yet.
InvalidSuite == [valid |-> FALSE, kex_algo |-> "", mac_algo |-> ""]

\* Ciphersuites the handshake may negotiate: (key exchange, MAC).
ValidSuites ==
  { [valid |-> TRUE, kex_algo |-> "RSA",     mac_algo |-> "MD5"],
    [valid |-> TRUE, kex_algo |-> "RSA",     mac_algo |-> "SHA-1"],
    [valid |-> TRUE, kex_algo |-> "RSA",     mac_algo |-> "SHA-256"],
    [valid |-> TRUE, kex_algo |-> "ECDH",    mac_algo |-> "SHA-384"],
    [valid |-> TRUE, kex_algo |-> "SRP_SHA", mac_algo |-> "SHA-1"] }

Suites == ValidSuites \cup {InvalidSuite}

(***************************************************************************)
(* Message objects. A pointer in 1..MaxMsg is a message object of the      *)
(* slot's type, 0 is the null pointer; the accessors give the fields the   *)
(* handshake state reads.                                                  *)
(***************************************************************************)

Pointers == 0..MaxMsg

Slots ==
  { "m_client_hello", "m_server_hello", "m_server_certs", "m_server_kex",
    "m_cert_req", "m_server_hello_done", "m_client_certs", "m_client_kex",
    "m_client_verify", "m_next_protocol", "m_new_session_ticket",
    "m_server_finished", "m_client_finished" }

\* New_Session_Ticket::ticket(): object 1 carries no ticket bytes.
ticket(p) == IF p = 1 THEN << >> ELSE << 16 + p >>

\* Client_Hello::session_ticket(): object 1 carries no ticket bytes.
session_ticket_of(p) == IF p = 1 THEN << >> ELSE << 32 + p >>

\* Client_Hello::srp_identifier()
srp_identifier_of(p) == IF p = 1 THEN "" ELSE "user" \o ToString(p)

(***************************************************************************)
(* Handshake_State::Handshake_State: the version is the record layer's     *)
(* initial record version; the members the constructor does not name are   *)
(* default-initialized: both masks zero, no suite chosen, every slot null. *)
(***************************************************************************)

NoCall == [op |-> "none", arg |-> "none", err |-> "none", ret |-> "none", reads |-> {}]

Init ==
  /\ m_hand_received_mask = NoBits
  /\ m_hand_expecting_mask = NoBits
  /\ m_version \in Versions
  /\ suite = InvalidSuite
  /\ store = [s \in Slots |-> 0]
  /\ last = NoCall
  /\ expected_since = {}
  /\ phase = "fresh"
  /\ ever_set = {}
  /\ nsets = 0

\* A call of a member function: its argument, the exception it ends with,
\* the value it returns, and the slots it dereferences.
CallReading(op, arg, err, ret, reads) ==
  [op |-> op, arg |-> arg, err |-> err, ret |-> ret, reads |-> reads]

Call(op, arg, err, ret) == CallReading(op, arg, err, ret, {})

(***************************************************************************)
(* Transition tracker.                                                     *)
(***************************************************************************)

\* confirm_transition_to without the final  m_hand_expecting_mask = 0.
confirm_keeping_expecting(received, expecting, handshake_msg) ==
  LET m == bitmask_for_handshake_type(handshake_msg) IN
  IF m.err # "none"
  THEN [received |-> received, expecting |-> expecting, err |-> m.err]
  ELSE [received |-> BitOr(received, m.val), expecting |-> expecting,
        err |-> IF BitAnd(expecting, m.val) # NoBits THEN "none"
                ELSE "Unexpected_Message"]

\* confirm_transition_to testing the overlap against the received mask.
confirm_against_received(received, expecting, handshake_msg) ==
  LET m == bitmask_for_handshake_type(handshake_msg) IN
  IF m.err # "none"
  THEN [received |-> received, expecting |-> expecting, err |-> m.err]
  ELSE IF BitAnd(BitOr(received, m.val), m.val) # NoBits
  THEN [received |-> BitOr(received, m.val), expecting |-> NoBits, err |-> "none"]
  ELSE [received |-> BitOr(received, m.val), expecting |-> expecting,
        err |-> "Unexpected_Message"]

\* confirm_transition_to clearing, on success, only the bit it matched.
confirm_clearing_one_bit(received, expecting, handshake_msg) ==
  LET m == bitmask_for_handshake_type(handshake_msg) IN
  IF m.err # "none"
  THEN [received |-> received, expecting |-> expecting, err |-> m.err]
  ELSE IF BitAnd(expecting, m.val) # NoBits
  THEN [received |-> BitOr(received, m.val), expecting |-> expecting \ m.val,
        err |-> "none"]
  ELSE [received |-> BitOr(received, m.val), expecting |-> expecting,
        err |-> "Unexpected_Message"]

\* confirm_transition_to recording the type only when it was expected.
confirm_recording_on_success(received, expecting, handshake_msg) ==
  LET m == bitmask_for_handshake_type(handshake_msg) IN
  IF m.err # "none"
  THEN [received |-> received, expecting |-> expecting, err |-> m.err]
  ELSE IF BitAnd(expecting, m.val) # NoBits
  THEN [received |-> BitOr(received, m.val), expecting |-> NoBits, err |-> "none"]
  ELSE [received |-> received, expecting |-> expecting,
        err |-> "Unexpected_Message"]

\* What confirm_transition_to(handshake_msg) does to masks received and
\* expecting: the masks after the call and the exception thrown, if any.
confirm_transition_to_outcome(received, expecting, handshake_msg) ==
  LET m == bitmask_for_handshake_type(handshake_msg) IN
  IF m.err # "none"
  THEN [received |-> received, expecting |-> expecting, err |-> m.err]
  ELSE LET mask == m.val
           received2 == BitOr(received, mask)
           ok == BitAnd(expecting, mask) # NoBits
       IN IF ~ok
          THEN [received |-> received2, expecting |-> expecting,
                err |-> "Unexpected_Message"]
          ELSE [received |-> received2, expecting |-> NoBits, err |-> "none"]

confirm_transition_to(handshake_msg) ==
  LET r == confirm_transition_to_outcome(m_hand_received_mask,
                                         m_hand_expecting_mask, handshake_msg)
  IN /\ m_hand_received_mask' = r.received
     /\ m_hand_expecting_mask' = r.expecting
     /\ last' = Call("confirm_transition_to", handshake_msg, r.err, "void")
     /\ expected_since' = {}
     /\ phase' = IF r.err = "none" THEN "confirmed" ELSE phase
     /\ UNCHANGED << m_version, suite, store, ever_set, nsets >>

\* set_expected_next assigning the mask instead of accumulating it.
set_expected_next_assigning(received, expecting, handshake_msg) ==
  LET m == bitmask_for_handshake_type(handshake_msg) IN
  IF m.err # "none"
  THEN [received |-> received, expecting |-> expecting, err |-> m.err]
  ELSE [received |-> received, expecting |-> m.val, err |-> "none"]

\* What set_expected_next(handshake_msg) does to the masks.
set_expected_next_outcome(received, expecting, handshake_msg) ==
  LET m == bitmask_for_handshake_type(handshake_msg) IN
  IF m.err # "none"
  THEN [received |-> received, expecting |-> expecting, err |-> m.err]
  ELSE [received |-> received, expecting |-> BitOr(expecting, m.val),
        err |-> "none"]

set_expected_next(handshake_msg) ==
  LET r == set_expected_next_outcome(m_hand_received_mask,
                                     m_hand_expecting_mask, handshake_msg)
  IN /\ m_hand_received_mask' = r.received
     /\ m_hand_expecting_mask' = r.expecting
     /\ last' = Call("set_expected_next", handshake_msg, r.err, "void")
     /\ expected_since' = IF r.err = "none"
                          THEN expected_since \cup {handshake_msg}
                          ELSE expected_since
     /\ phase' = IF r.err = "none" /\ handshake_msg # "HANDSHAKE_NONE"
                 THEN "armed" ELSE phase
     /\ UNCHANGED << m_version, suite, store, ever_set, nsets >>

\* The value received_handshake_msg(handshake_msg) returns on mask received.
received_handshake_msg_outcome(received, handshake_msg) ==
  LET m == bitmask_for_handshake_type(handshake_msg) IN
  IF m.err # "none"
  THEN [ret |-> FALSE, err |-> m.err]
  ELSE [ret |-> BitAnd(received, m.val) # NoBits, err |-> "none"]

received_handshake_msg(handshake_msg) ==
  LET r == received_handshake_msg_outcome(m_hand_received_mask, handshake_msg)
  IN /\ last' = Call("received_handshake_msg", handshake_msg, r.err, r.ret)
     /\ UNCHANGED << m_hand_received_mask, m_hand_expecting_mask, m_version,
                     suite, store, expected_since, phase, ever_set, nsets >>

(***************************************************************************)
(* Message store: one setter per slot, each a std::unique_ptr::reset.      *)
(***************************************************************************)

\* std::unique_ptr::reset(p) on member: the member owns p from now on.
reset(member, p) == store' = [store EXCEPT ![member] = p]

\* The frame of every setter, and the history of setter calls.
SetterCall(op, member, p) ==
  /\ nsets < MaxSets
  /\ last' = Call(op, p, "none", "void")
  /\ ever_set' = ever_set \cup {member}
  /\ nsets' = nsets + 1
  /\ UNCHANGED << m_hand_received_mask, m_hand_expecting_mask, m_version, suite,
                  expected_since, phase >>

\* client_hello releasing the server hello as well.
client_hello_dropping_server_hello(p) ==
  /\ store' = [store EXCEPT !["m_client_hello"] = p, !["m_server_hello"] = 0]
  /\ SetterCall("client_hello", "m_client_hello", p)

client_hello(p) ==
  /\ reset("m_client_hello", p)
  /\ SetterCall("client_hello", "m_client_hello", p)

server_hello(p) ==
  /\ reset("m_server_hello", p)
  /\ SetterCall("server_hello", "m_server_hello", p)

server_certs(p) ==
  /\ reset("m_server_certs", p)
  /\ SetterCall("server_certs", "m_server_certs", p)

server_kex(p) ==
  /\ reset("m_server_kex", p)
  /\ SetterCall("server_kex", "m_server_kex", p)

cert_req(p) ==
  /\ reset("m_cert_req", p)
  /\ SetterCall("cert_req", "m_cert_req", p)

server_hello_done(p) ==
  /\ reset("m_server_hello_done", p)
  /\ SetterCall("server_hello_done", "m_server_hello_done", p)

client_certs(p) ==
  /\ reset("m_client_certs", p)
  /\ SetterCall("client_certs", "m_client_certs", p)

client_kex(p) ==
  /\ reset("m_client_kex", p)
  /\ SetterCall("client_kex", "m_client_kex", p)

client_verify(p) ==
  /\ reset("m_client_verify", p)
  /\ SetterCall("client_verify", "m_client_verify", p)

next_protocol(p) ==
  /\ reset("m_next_protocol", p)
  /\ SetterCall("next_protocol", "m_next_protocol", p)

new_session_ticket(p) ==
  /\ reset("m_new_session_ticket", p)
  /\ SetterCall("new_session_ticket", "m_new_session_ticket", p)

\* server_finished storing into the client's slot.
server_finished_into_client_slot(p) ==
  /\ reset("m_client_finished", p)
  /\ SetterCall("server_finished", "m_server_finished", p)

server_finished(p) ==
  /\ reset("m_server_finished", p)
  /\ SetterCall("server_finished", "m_server_finished", p)

client_finished(p) ==
  /\ reset("m_client_finished", p)
  /\ SetterCall("client_finished", "m_client_finished", p)

\* The getter of a slot: std::unique_ptr::get() of the member.
get(member) == store[member]

\* The setter (and getter) name of a member: the member's name without "m_".
AccessorOf ==
  [ m_client_hello |-> "client_hello", m_server_hello |-> "server_hello",
    m_server_certs |-> "server_certs", m_server_kex |-> "server_kex",
    m_cert_req |-> "cert_req", m_server_hello_done |-> "server_hello_done",
    m_client_certs |-> "client_certs", m_client_kex |-> "client_kex",
    m_client_verify |-> "client_verify", m_next_protocol |-> "next_protocol",
    m_new_session_ticket |-> "new_session_ticket",
    m_server_finished |-> "server_finished",
    m_client_finished |-> "client_finished" ]

set_version(version) ==
  /\ m_version' = version
  /\ last' = Call("set_version", version, "none", "void")
  /\ UNCHANGED << m_hand_received_mask, m_hand_expecting_mask, suite, store,
                  expected_since, phase, ever_set, nsets >>

\* The owner of the handshake state assigns the negotiated suite to the
\* public member.
assign_suite(s) ==
  /\ suite' = s
  /\ last' = Call("assign_suite", s, "none", "void")
  /\ UNCHANGED << m_hand_received_mask, m_hand_expecting_mask, m_version, store,
                  expected_since, phase, ever_set, nsets >>

NextTracker ==
  \/ \E k \in OpKinds :
       \/ confirm_transition_to(k)
       \/ set_expected_next(k)
       \/ received_handshake_msg(k)
  \/ \E version \in Versions : set_version(version)

SpecTracker == Init /\ [][NextTracker]_vars

\* The handshake types the store's specification calls the tracker with.
MixedKinds == { KindOrder[i] : i \in 2..(MaxMixedKind + 1) }

NextStore ==
  \/ \E p \in Pointers :
       \/ client_hello(p)
       \/ server_hello(p)
       \/ server_certs(p)
       \/ server_kex(p)
       \/ cert_req(p)
       \/ server_hello_done(p)
       \/ client_certs(p)
       \/ client_kex(p)
       \/ client_verify(p)
       \/ next_protocol(p)
       \/ new_session_ticket(p)
       \/ server_finished(p)
       \/ client_finished(p)
  \/ \E k \in MixedKinds :
       \/ set_expected_next(k)
       \/ confirm_transition_to(k)

\* The store and the tracker do not read the version: one initial record
\* version stands for all of them here.
InitStore == Init /\ m_version = "TLS_V10"

SpecStore == InitStore /\ [][NextStore]_vars

(***************************************************************************)
(* Derived queries and PRF selection.                                      *)
(***************************************************************************)

\* What dereferencing a null message pointer can do: the process is killed,
\* or the read yields whatever bytes lie there.
NullDerefBytes == { [err |-> "SIGSEGV", ret |-> << >>],
                    [err |-> "none", ret |-> << >>],
                    [err |-> "none", ret |-> << 255 >>] }

NullDerefString == { [err |-> "SIGSEGV", ret |-> ""],
                     [err |-> "none", ret |-> ""],
                     [err |-> "none", ret |-> "garbage"] }

\* srp_identifier without the test of the suite's key exchange.
srp_identifier_unconditional ==
  /\ IF get("m_client_hello") # 0
     THEN last' = CallReading("srp_identifier", "void", "none",
                              srp_identifier_of(get("m_client_hello")),
                              {"m_client_hello"})
     ELSE \E o \in NullDerefString :
            last' = CallReading("srp_identifier", "void", o.err, o.ret,
                                {"m_client_hello"})
  /\ UNCHANGED << m_hand_received_mask, m_hand_expecting_mask, m_version,
                  suite, store, expected_since, phase, ever_set, nsets >>

srp_identifier ==
  IF suite.valid /\ suite.kex_algo = "SRP_SHA"
  THEN /\ IF get("m_client_hello") # 0
          THEN last' = CallReading("srp_identifier", "void", "none",
                                   srp_identifier_of(get("m_client_hello")),
                                   {"m_client_hello"})
          ELSE \E o \in NullDerefString :
                 last' = CallReading("srp_identifier", "void", o.err, o.ret,
                                     {"m_client_hello"})
       /\ UNCHANGED << m_hand_received_mask, m_hand_expecting_mask, m_version,
                       suite, store, expected_since, phase, ever_set, nsets >>
  ELSE /\ last' = Call("srp_identifier", "void", "none", "")
       /\ UNCHANGED << m_hand_received_mask, m_hand_expecting_mask, m_version,
                       suite, store, expected_since, phase, ever_set, nsets >>

session_ticket ==
  IF get("m_new_session_ticket") # 0 /\ ticket(get("m_new_session_ticket")) # << >>
  THEN /\ last' = CallReading("session_ticket", "void", "none",
                               ticket(get("m_new_session_ticket")),
                               {"m_new_session_ticket"})
       /\ UNCHANGED << m_hand_received_mask, m_hand_expecting_mask, m_version,
                       suite, store, expected_since, phase, ever_set, nsets >>
  ELSE /\ IF get("m_client_hello") # 0
          THEN last' = CallReading("session_ticket", "void", "none",
                                   session_ticket_of(get("m_client_hello")),
                                   {"m_new_session_ticket", "m_client_hello"})
          ELSE \E o \in NullDerefBytes :
                 last' = CallReading("session_ticket", "void", o.err, o.ret,
                                     {"m_new_session_ticket", "m_client_hello"})
       /\ UNCHANGED << m_hand_received_mask, m_hand_expecting_mask, m_version,
                       suite, store, expected_since, phase, ever_set, nsets >>

\* protocol_specific_prf without the MD5/SHA-1 override.
prf_name_without_override(version, mac_algo) ==
  IF version = "SSL_V3"
  THEN "SSL3-PRF"
  ELSE IF supports_ciphersuite_specific_prf(version)
  THEN "TLS-12-PRF(" \o mac_algo \o ")"
  ELSE "TLS-PRF"

\* The name protocol_specific_prf passes to get_kdf for a version and a
\* suite MAC. Every branch of the if/else chain returns: the throw of
\* Internal_Error that follows it is never reached.
prf_name(version, mac_algo) ==
  IF version = "SSL_V3"
  THEN "SSL3-PRF"
  ELSE IF supports_ciphersuite_specific_prf(version)
  THEN IF mac_algo = "MD5" \/ mac_algo = "SHA-1"
       THEN "TLS-12-PRF(SHA-256)"
       ELSE "TLS-12-PRF(" \o mac_algo \o ")"
  ELSE "TLS-PRF"

protocol_specific_prf ==
  /\ last' = Call("protocol_specific_prf", "void", "none",
                   prf_name(m_version, suite.mac_algo))
  /\ UNCHANGED << m_hand_received_mask, m_hand_expecting_mask, m_version,
                  suite, store, expected_since, phase, ever_set, nsets >>

NextDerived ==
  \/ \E p \in Pointers :
       \/ client_hello(p)
       \/ new_session_ticket(p)
  \/ \E version \in Versions : set_version(version)
  \/ \E s \in Suites : assign_suite(s)
  \/ srp_identifier
  \/ session_ticket
  \/ protocol_specific_prf

SpecDerived == Init /\ [][NextDerived]_vars

(***************************************************************************)
(* Signature formats: choose_hash, choose_sig_format (signing side) and    *)
(* understand_sig_format (verifying side).                                 *)
(***************************************************************************)

\* Number of distinct signature-algorithm advertisements a stored
\* ClientHello or CertificateRequest object can carry here.
MaxAdvert == 3

\* Longest list Policy::allowed_signature_hashes() returns here.
MaxPolicyLen == 3

\* Protocol_Version::supports_negotiable_signature_algorithms
supports_negotiable_signature_algorithms(version) ==
  version \in { "TLS_V12", "DTLS_V12" }

\* The advertisements, as lists of (hash, signature algorithm) pairs in the
\* order the counterpart sent them.
AdvertLists ==
  << << >>,
     << <<"SHA-256", "RSA">>, <<"SHA-384", "RSA">>, <<"SHA-384", "ECDSA">> >>,
     << <<"SHA-384", "ECDSA">>, <<"SHA-384", "RSA">>, <<"SHA-256", "RSA">> >>,
     << <<"SHA-256", "RSA">>, <<"SHA-1", "RSA">> >>,
     << <<"SHA-224", "RSA">>, <<"MD5", "DSA">>, <<"SHA-256", "DH">> >> >>

\* Client_Hello::supported_algos() and Certificate_Req::supported_algos():
\* message object p carries the p-th advertisement.
supported_algos(p) == AdvertLists[((p - 1) % Len(AdvertLists)) + 1]

\* The message objects a ClientHello or CertificateRequest slot is set to
\* where signatures are chosen; 0 is the null pointer.
AdvertPointers == 0..MaxAdvert

\* The hashes a policy can allow, and Policy::allowed_signature_hashes():
\* a policy is the list it returns, in preference order, without repeats.
PolicyHashes == { "SHA-384", "SHA-256", "SHA-1" }

Policies ==
  { hashes \in UNION { [1..n -> PolicyHashes] : n \in 0..MaxPolicyLen } :
      \A i, j \in DOMAIN hashes : hashes[i] = hashes[j] => i = j }

\* Private_Key::algo_name() and Public_Key::algo_name(): a key is
\* represented by its algorithm name. "DH" is a key TLS cannot sign with.
SignatureAlgos == { "RSA", "DSA", "ECDSA" }

KeyAlgos == SignatureAlgos \cup { "DH" }

\* What the caller's two output strings hold before choose_sig_format.
CallerString == "caller"

\* A hash name returned, or an exception thrown, by choose_hash. The error
\* "null_deref" stands for the dereference of a null message pointer.
HashIs(hash) == [err |-> "none", ret |-> hash]

HashFails(e) == [err |-> e, ret |-> ""]

\* The inner loop of choose_hash comparing the hash of a pair only.
algo_loop_ignoring_sig_algo(algos, hash, sig_algo, j) ==
  \E n \in DOMAIN algos : n >= j /\ algos[n][1] = hash

\* The inner loop of choose_hash, from element j of supported_algos on:
\* some pair is (hash, sig_algo).
RECURSIVE AlgoLoop(_, _, _, _)
AlgoLoop(algos, hash, sig_algo, j) ==
  IF j > Len(algos)
  THEN FALSE
  ELSE IF algos[j][1] = hash /\ algos[j][2] = sig_algo
  THEN TRUE
  ELSE AlgoLoop(algos, hash, sig_algo, j + 1)

\* The two loops of choose_hash nested the other way round: the first
\* advertised pair with sig_algo whose hash the policy allows decides.
hash_by_counterpart_order(hashes, algos, sig_algo, i) ==
  LET allowed == { hashes[n] : n \in { m \in DOMAIN hashes : m >= i } }
      hits == { j \in DOMAIN algos :
                  algos[j][2] = sig_algo /\ algos[j][1] \in allowed }
  IN IF hits = {}
     THEN "SHA-1"
     ELSE algos[CHOOSE j \in hits : \A n \in hits : j <= n][1]

\* The outer loop of choose_hash, from element i of hashes on: the first
\* hash the inner loop finds a pair for, or "SHA-1" after both loops.
RECURSIVE HashLoop(_, _, _, _)
HashLoop(hashes, algos, sig_algo, i) ==
  IF i > Len(hashes)
  THEN "SHA-1"
  ELSE IF AlgoLoop(algos, hashes[i], sig_algo, 1)
  THEN hashes[i]
  ELSE HashLoop(hashes, algos, sig_algo, i + 1)

\* choose_hash answering an empty advertisement with the policy's first
\* hash instead of "SHA-1".
choose_hash_policy_default(sig_algo, negotiated_version, policy, for_client_auth, client_hello_msg, cert_req_msg) ==
  IF ~supports_negotiable_signature_algorithms(negotiated_version)
  THEN IF for_client_auth /\ negotiated_version = "SSL_V3"
       THEN HashIs("Raw")
       ELSE IF sig_algo = "RSA"
       THEN HashIs("TLS.Digest.0")
       ELSE IF sig_algo = "DSA" \/ sig_algo = "ECDSA"
       THEN HashIs("SHA-1")
       ELSE HashFails("Internal_Error")
  ELSE LET msg == IF for_client_auth THEN cert_req_msg ELSE client_hello_msg
       IN IF msg = 0
          THEN HashFails("null_deref")
          ELSE LET algos == supported_algos(msg)
               IN IF algos # << >>
                  THEN HashIs(HashLoop(policy, algos, sig_algo, 1))
                  ELSE IF policy # << >>
                  THEN HashIs(policy[1])
                  ELSE HashIs("SHA-1")

\* choose_hash; client_hello and cert_req are message pointers.
choose_hash(sig_algo, negotiated_version, policy, for_client_auth, client_hello_msg, cert_req_msg) ==
  IF ~supports_negotiable_signature_algorithms(negotiated_version)
  THEN IF for_client_auth /\ negotiated_version = "SSL_V3"
       THEN HashIs("Raw")
       ELSE IF sig_algo = "RSA"
       THEN HashIs("TLS.Digest.0")
       ELSE IF sig_algo = "DSA"
       THEN HashIs("SHA-1")
       ELSE IF sig_algo = "ECDSA"
       THEN HashIs("SHA-1")
       ELSE HashFails("Internal_Error")
  ELSE LET msg == IF for_client_auth THEN cert_req_msg ELSE client_hello_msg
       IN IF msg = 0
          THEN HashFails("null_deref")
          ELSE LET algos == supported_algos(msg)
               IN IF algos # << >>
                  THEN HashIs(HashLoop(policy, algos, sig_algo, 1))
                  ELSE HashIs("SHA-1")

\* A result of choose_sig_format: the exception, the (padding, format) pair
\* returned, and the caller's two output strings after the call.
SigFormat(err, padding, format, hash_algo_out, sig_algo_out) ==
  [err |-> err, padding |-> padding, format |-> format,
   hash_algo_out |-> hash_algo_out, sig_algo_out |-> sig_algo_out]

\* choose_sig_format writing the two output strings under every version.
choose_sig_format_writing_always(hash_algo, version, sig_algo, hash_algo_out, sig_algo_out) ==
  IF sig_algo = "RSA"
  THEN SigFormat("none", "EMSA3(" \o hash_algo \o ")", "IEEE_1363",
                 hash_algo, sig_algo)
  ELSE IF sig_algo = "DSA" \/ sig_algo = "ECDSA"
  THEN SigFormat("none", "EMSA1(" \o hash_algo \o ")", "DER_SEQUENCE",
                 hash_algo, sig_algo)
  ELSE SigFormat("Invalid_Argument", "", "", hash_algo, sig_algo)

\* choose_sig_format giving every key that is not an RSA key the DSA format.
choose_sig_format_defaulting(hash_algo, version, sig_algo, hash_algo_out, sig_algo_out) ==
  LET negotiable == supports_negotiable_signature_algorithms(version)
      hash_out == IF negotiable THEN hash_algo ELSE hash_algo_out
      sig_out == IF negotiable THEN sig_algo ELSE sig_algo_out
  IN IF sig_algo = "RSA"
     THEN SigFormat("none", "EMSA3(" \o hash_algo \o ")", "IEEE_1363",
                    hash_out, sig_out)
     ELSE SigFormat("none", "EMSA1(" \o hash_algo \o ")", "DER_SEQUENCE",
                    hash_out, sig_out)

\* choose_sig_format from the point where choose_hash has returned hash_algo.
choose_sig_format_with(hash_algo, version, sig_algo, hash_algo_out, sig_algo_out) ==
  LET negotiable == supports_negotiable_signature_algorithms(version)
      hash_out == IF negotiable THEN hash_algo ELSE hash_algo_out
      sig_out == IF negotiable THEN sig_algo ELSE sig_algo_out
  IN IF sig_algo = "RSA"
     THEN SigFormat("none", "EMSA3(" \o hash_algo \o ")", "IEEE_1363",
                    hash_out, sig_out)
     ELSE IF sig_algo = "DSA" \/ sig_algo = "ECDSA"
     THEN SigFormat("none", "EMSA1(" \o hash_algo \o ")", "DER_SEQUENCE",
                    hash_out, sig_out)
     ELSE SigFormat("Invalid_Argument", "", "", hash_out, sig_out)

\* What choose_sig_format does for a handshake state with the given version
\* and ClientHello and CertificateRequest slots.
choose_sig_format_outcome(version, client_hello_msg, cert_req_msg, key, hash_algo_out, sig_algo_out, for_client_auth, policy) ==
  LET sig_algo == key
      hash_algo == choose_hash(sig_algo, version, policy, for_client_auth,
                               client_hello_msg, cert_req_msg)
  IN IF hash_algo.err # "none"
     THEN SigFormat(hash_algo.err, "", "", hash_algo_out, sig_algo_out)
     ELSE choose_sig_format_with(hash_algo.ret, version, sig_algo,
                                 hash_algo_out, sig_algo_out)

\* The arguments of a choose_sig_format call.
SignArgs(key, hash_algo_out, sig_algo_out, for_client_auth, policy) ==
  [key |-> key, hash_algo_out |-> hash_algo_out,
   sig_algo_out |-> sig_algo_out, for_client_auth |-> for_client_auth,
   policy |-> policy]

\* The message slot choose_hash dereferences, if any.
SignReads(version, for_client_auth) ==
  IF ~supports_negotiable_signature_algorithms(version)
  THEN {}
  ELSE IF for_client_auth THEN {"m_cert_req"} ELSE {"m_client_hello"}

choose_sig_format(key, hash_algo_out, sig_algo_out, for_client_auth, policy) ==
  LET r == choose_sig_format_outcome(m_version, get("m_client_hello"),
                                     get("m_cert_req"), key, hash_algo_out,
                                     sig_algo_out, for_client_auth, policy)
      arg == SignArgs(key, hash_algo_out, sig_algo_out, for_client_auth, policy)
      reads == SignReads(m_version, for_client_auth)
  IN /\ IF r.err = "null_deref"
        THEN \E o \in NullDerefString :
               LET g == IF o.err # "none"
                        THEN SigFormat(o.err, "", "", hash_algo_out, sig_algo_out)
                        ELSE choose_sig_format_with(o.ret, m_version, key,
                                                    hash_algo_out, sig_algo_out)
               IN last' = CallReading("choose_sig_format", arg, g.err, g, reads)
        ELSE last' = CallReading("choose_sig_format", arg, r.err, r, reads)
     /\ UNCHANGED << m_hand_received_mask, m_hand_expecting_mask, m_version,
                     suite, store, expected_since, phase, ever_set, nsets >>

\* The identifiers a signature can carry on the wire: empty when the
\* message has no algorithm field.
WireHashes == { "", "SHA-1", "SHA-256" }

WireSigAlgos == { "" } \cup KeyAlgos

\* A result of understand_sig_format.
VerifyFormat(err, padding, format) ==
  [err |-> err, padding |-> padding, format |-> format]

\* understand_sig_format accepting any identifiers under a version without
\* negotiable signature algorithms.
sig_ids_rejected_only_when_negotiable(version, algo_name, hash_algo, sig_algo) ==
  /\ supports_negotiable_signature_algorithms(version)
  /\ (hash_algo = "" \/ sig_algo # algo_name)

\* The checks of the identifiers the signature carried on the wire: TRUE
\* when understand_sig_format throws Decoding_Error.
sig_ids_rejected(version, algo_name, hash_algo, sig_algo) ==
  IF supports_negotiable_signature_algorithms(version)
  THEN IF hash_algo = ""
       THEN TRUE
       ELSE IF sig_algo # algo_name THEN TRUE ELSE FALSE
  ELSE IF hash_algo # "" \/ sig_algo # "" THEN TRUE ELSE FALSE

\* understand_sig_format with the SSLv3 client-authentication case "Raw"
\* for DSA keys only.
verify_format_raw_for_dsa_only(version, algo_name, hash_algo, for_client_auth) ==
  LET negotiable == supports_negotiable_signature_algorithms(version)
  IN IF algo_name = "RSA"
     THEN LET hash == IF ~negotiable THEN "TLS.Digest.0" ELSE hash_algo
          IN VerifyFormat("none", "EMSA3(" \o hash \o ")", "IEEE_1363")
     ELSE IF algo_name = "DSA" \/ algo_name = "ECDSA"
     THEN LET hash == IF algo_name = "DSA" /\ for_client_auth
                         /\ version = "SSL_V3"
                      THEN "Raw"
                      ELSE IF ~negotiable THEN "SHA-1" ELSE hash_algo
          IN VerifyFormat("none", "EMSA1(" \o hash \o ")", "DER_SEQUENCE")
     ELSE VerifyFormat("Invalid_Argument", "", "")

\* understand_sig_format from the point where the identifiers have passed
\* the checks.
verify_format(version, algo_name, hash_algo, for_client_auth) ==
  LET negotiable == supports_negotiable_signature_algorithms(version)
  IN IF algo_name = "RSA"
     THEN LET hash == IF for_client_auth /\ version = "SSL_V3"
                      THEN "Raw"
                      ELSE IF ~negotiable THEN "TLS.Digest.0" ELSE hash_algo
          IN VerifyFormat("none", "EMSA3(" \o hash \o ")", "IEEE_1363")
     ELSE IF algo_name = "DSA" \/ algo_name = "ECDSA"
     THEN LET hash == IF algo_name = "DSA" /\ for_client_auth
                         /\ version = "SSL_V3"
                      THEN "Raw"
                      ELSE IF ~negotiable THEN "SHA-1" ELSE hash_algo
          IN VerifyFormat("none", "EMSA1(" \o hash \o ")", "DER_SEQUENCE")
     ELSE VerifyFormat("Invalid_Argument", "", "")

\* What understand_sig_format does for a handshake state with the given
\* version; key is the public key's algorithm name.
understand_sig_format_outcome(version, key, hash_algo, sig_algo, for_client_auth) ==
  LET algo_name == key
  IN IF sig_ids_rejected(version, algo_name, hash_algo, sig_algo)
     THEN VerifyFormat("Decoding_Error", "", "")
     ELSE verify_format(version, algo_name, hash_algo, for_client_auth)

\* The arguments of an understand_sig_format call.
VerifyArgs(key, hash_algo, sig_algo, for_client_auth) ==
  [key |-> key, hash_algo |-> hash_algo, sig_algo |-> sig_algo,
   for_client_auth |-> for_client_auth]

understand_sig_format(key, hash_algo, sig_algo, for_client_auth) ==
  LET r == understand_sig_format_outcome(m_version, key, hash_algo, sig_algo,
                                         for_client_auth)
  IN /\ last' = Call("understand_sig_format",
                     VerifyArgs(key, hash_algo, sig_algo, for_client_auth),
                     r.err, r)
     /\ UNCHANGED << m_hand_received_mask, m_hand_expecting_mask, m_version,
                     suite, store, expected_since, phase, ever_set, nsets >>

\* The signing side: the two messages that carry an advertisement are
\* stored, and a signature format is chosen.
NextSign ==
  \/ \E p \in AdvertPointers :
       \/ client_hello(p)
       \/ cert_req(p)
  \/ \E key \in KeyAlgos, for_client_auth \in BOOLEAN, policy \in Policies :
       choose_sig_format(key, CallerString, CallerString, for_client_auth,
                         policy)

SpecSign == Init /\ [][NextSign]_vars

\* The verifying side.
NextVerify ==
  \/ \E version \in Versions : set_version(version)
  \/ \E key \in KeyAlgos, hash_algo \in WireHashes, sig_algo \in WireSigAlgos,
        for_client_auth \in BOOLEAN :
       understand_sig_format(key, hash_algo, sig_algo, for_client_auth)

SpecVerify == Init /\ [][NextVerify]_vars

(***************************************************************************)
(* Properties of the transition tracker.                                   *)
(***************************************************************************)

Mask(k) == bitmask_for_handshake_type(k).val

\* Number of one bits of a mask.
PopCount(a) == Cardinality(a)

ConfirmWould(k) ==
  confirm_transition_to_outcome(m_hand_received_mask, m_hand_expecting_mask, k)

ExpectWould(k) ==
  set_expected_next_outcome(m_hand_received_mask, m_hand_expecting_mask, k)

ReceivedWould(k) == received_handshake_msg_outcome(m_hand_received_mask, k)

ClientHellos == { "CLIENT_HELLO", "CLIENT_HELLO_SSLV2" }

\* C1: right after a confirm_transition_to(k) that succeeds,
\* received_handshake_msg(k) is true and the expecting mask is empty; and from
\* a successful confirm_transition_to on, whatever is called, the expecting
\* mask stays empty until set_expected_next is called (with a type that has
\* a bit).
C1_ConfirmClearsExpecting ==
  /\ (last.op = "confirm_transition_to" /\ last.err = "none")
       => /\ ReceivedWould(last.arg).ret
          /\ ReceivedWould(last.arg).err = "none"
          /\ m_hand_expecting_mask = NoBits
  /\ phase = "confirmed" => m_hand_expecting_mask = NoBits

\* A successful confirm_transition_to, then other calls, no set_expected_next.
C1_Witness ==
  /\ phase = "confirmed"
  /\ last.op = "received_handshake_msg"
  /\ last.arg = "SERVER_HELLO"
  /\ last.ret

\* C2: in every state and for every handshake type k, confirm_transition_to(k)
\* throws Unexpected_Message when k's bit does not intersect the expecting
\* mask, whatever the received mask holds; confirm_transition_to(HANDSHAKE_NONE)
\* throws in every state; and on a tracker on which set_expected_next was
\* never called (with a type that has a bit) every confirm_transition_to
\* throws.
C2_NoOverlapFails ==
  /\ \A k \in HandshakeTypes :
       BitAnd(m_hand_expecting_mask, Mask(k)) = NoBits
         => ConfirmWould(k).err = "Unexpected_Message"
  /\ ConfirmWould("HANDSHAKE_NONE").err = "Unexpected_Message"
  /\ phase = "fresh"
       => \A k \in HandshakeTypes : ConfirmWould(k).err = "Unexpected_Message"
  /\ (last.op = "confirm_transition_to" /\ last.arg = "HANDSHAKE_NONE")
       => last.err = "Unexpected_Message"
  /\ (last.op = "confirm_transition_to" /\ last.arg \in HandshakeTypes
        /\ phase = "fresh")
       => last.err = "Unexpected_Message"

\* CLIENT_HELLO is rejected while SERVER_HELLO, received before, is expected.
C2_Witness ==
  /\ last.op = "confirm_transition_to"
  /\ last.arg = "CLIENT_HELLO"
  /\ last.err = "Unexpected_Message"
  /\ phase = "armed"
  /\ m_hand_expecting_mask = Mask("SERVER_HELLO")
  /\ BitAnd(m_hand_received_mask, Mask("SERVER_HELLO")) # NoBits

\* C3: a confirm_transition_to succeeds only if set_expected_next was called
\* with a type other than HANDSHAKE_NONE since the last successful
\* confirm_transition_to (or since construction); with no such call every
\* confirm_transition_to fails.
C3_DoubleAdvanceFails ==
  [][ /\ (last'.op = "confirm_transition_to" /\ last'.err = "none")
          => phase = "armed"
      /\ (last'.op = "confirm_transition_to" /\ phase # "armed")
          => /\ last'.err # "none"
             /\ m_hand_expecting_mask' = m_hand_expecting_mask ]_vars

\* A confirm_transition_to fails after a successful one with no
\* set_expected_next in between.
C3_Witness ==
  /\ phase = "confirmed"
  /\ last.op = "confirm_transition_to"
  /\ last.arg = "SERVER_HELLO"
  /\ last.err = "Unexpected_Message"
  /\ expected_since = {}
  /\ BitAnd(m_hand_received_mask, Mask("CLIENT_HELLO")) # NoBits

\* C4: the mask of every type other than HANDSHAKE_NONE has exactly one bit,
\* the mask of HANDSHAKE_NONE is empty, and two different types have the same
\* mask only if they are CLIENT_HELLO and CLIENT_HELLO_SSLV2, which do; so in
\* every state a confirm_transition_to(k) turns received_handshake_msg(j)
\* from false to true only for j = k or for the client hello pair.
C4_MaskInjective ==
  /\ \A k \in HandshakeTypes :
       /\ bitmask_for_handshake_type(k).err = "none"
       /\ PopCount(Mask(k)) = IF k = "HANDSHAKE_NONE" THEN 0 ELSE 1
  /\ Mask("CLIENT_HELLO") = Mask("CLIENT_HELLO_SSLV2")
  /\ \A j, k \in HandshakeTypes :
       (j # k /\ Mask(j) = Mask(k)) => {j, k} = ClientHellos
  /\ \A j, k \in HandshakeTypes :
       ( /\ ~ ReceivedWould(j).ret
         /\ received_handshake_msg_outcome(ConfirmWould(k).received, j).ret )
         => (j = k \/ {j, k} = ClientHellos)
  /\ (last.op = "confirm_transition_to" /\ last.arg \in HandshakeTypes)
       => \A j \in HandshakeTypes :
            (Mask(j) = Mask(last.arg) /\ j # "HANDSHAKE_NONE") => ReceivedWould(j).ret

\* Only the legacy client hello was confirmed, and the standard one counts as
\* received.
C4_Witness ==
  /\ last.op = "confirm_transition_to"
  /\ last.arg = "CLIENT_HELLO_SSLV2"
  /\ last.err = "none"
  /\ expected_since = {}
  /\ m_hand_received_mask = Mask("CLIENT_HELLO_SSLV2")
  /\ ReceivedWould("CLIENT_HELLO").ret
  /\ ~ ReceivedWould("SERVER_HELLO").ret

\* C5 as stated: set_expected_next(k) only adds k's bit to the expecting mask,
\* leaves the received mask alone, changes nothing for HANDSHAKE_NONE, and
\* after set_expected_next(a) and set_expected_next(b) with no
\* confirm_transition_to in between, confirm_transition_to(a) would succeed
\* for every a.
C5_AsStated ==
  /\ \A k \in HandshakeTypes :
       /\ ExpectWould(k).expecting = BitOr(m_hand_expecting_mask, Mask(k))
       /\ BitAnd(ExpectWould(k).expecting, m_hand_expecting_mask) = m_hand_expecting_mask
       /\ ExpectWould(k).received = m_hand_received_mask
  /\ ExpectWould("HANDSHAKE_NONE").expecting = m_hand_expecting_mask
  /\ \A a \in expected_since : ConfirmWould(a).err = "none"

\* C5, amended: as C5_AsStated, with the kinds a and b other than
\* HANDSHAKE_NONE: confirm_transition_to(HANDSHAKE_NONE) fails although
\* set_expected_next(HANDSHAKE_NONE) was called.
C5_Additive ==
  /\ \A k \in HandshakeTypes :
       /\ ExpectWould(k).expecting = BitOr(m_hand_expecting_mask, Mask(k))
       /\ BitAnd(ExpectWould(k).expecting, m_hand_expecting_mask) = m_hand_expecting_mask
       /\ ExpectWould(k).received = m_hand_received_mask
  /\ ExpectWould("HANDSHAKE_NONE").expecting = m_hand_expecting_mask
  /\ \A a \in expected_since \ {"HANDSHAKE_NONE"} : ConfirmWould(a).err = "none"
  /\ (last.op = "set_expected_next" /\ last.arg \in HandshakeTypes)
       => BitAnd(m_hand_expecting_mask, Mask(last.arg)) = Mask(last.arg)

\* Two kinds with different bits were declared, neither confirmed yet.
C5_Witness ==
  /\ last.op = "set_expected_next"
  /\ expected_since = { "CLIENT_HELLO", "SERVER_HELLO" }
  /\ m_hand_expecting_mask = BitOr(Mask("CLIENT_HELLO"), Mask("SERVER_HELLO"))

(***************************************************************************)
(* Properties of the message store.                                        *)
(***************************************************************************)

\* C6: the getter of every slot returns null as long as the slot's setter
\* has not been called, and the pointer last passed to the setter afterwards;
\* a setter call changes its own slot only: no other slot (the two Finished
\* slots are distinct) and neither mask.
C6_SlotRoundTrip ==
  /\ [] (\A s \in Slots :
           /\ s \notin ever_set => get(s) = 0
           /\ last.op = AccessorOf[s] => get(s) = last.arg)
  /\ [][ nsets' # nsets =>
           \E s \in Slots :
             /\ last'.op = AccessorOf[s]
             /\ store'[s] = last'.arg
             /\ \A t \in Slots \ {s} : store'[t] = store[t]
             /\ m_hand_received_mask' = m_hand_received_mask
             /\ m_hand_expecting_mask' = m_hand_expecting_mask ]_vars

\* Both Finished slots hold their own message, the masks are not empty.
C6_Witness ==
  /\ last.op = "server_finished"
  /\ get("m_server_finished") = 2
  /\ get("m_client_finished") = 1
  /\ get("m_client_hello") = 0
  /\ m_hand_expecting_mask # NoBits
  /\ m_hand_received_mask # NoBits

\* C7 as stated: once a slot holds a message, no later store or tracker
\* operation changes what the slot holds.
C7_AsStated ==
  [][ \A s \in Slots : store[s] # 0 => store'[s] = store[s] ]_vars

\* C7, amended: once a slot holds a message, it keeps holding it under every
\* store and tracker operation other than a call of the slot's own setter
\* (which replaces the message, or clears the slot when passed null).
C7_SlotKeptByOthers ==
  [][ \A s \in Slots :
        (store[s] # 0 /\ ~ (nsets' # nsets /\ last'.op = AccessorOf[s]))
          => store'[s] = store[s] ]_vars

\* The client hello was stored first; another setter and tracker calls later
\* it is still the one stored.
C7_Witness ==
  /\ get("m_client_hello") = 1
  /\ get("m_server_hello") = 2
  /\ nsets = 2
  /\ last.op = "confirm_transition_to"
  /\ last.err = "none"

(***************************************************************************)
(* Properties of the derived queries and of the PRF selection.             *)
(***************************************************************************)

\* C8: session_ticket() returns the stored NewSessionTicket's bytes when that
\* slot is set and the bytes are not empty; otherwise the session ticket of
\* the stored ClientHello; and the empty ticket, with no error, when neither
\* is stored.
C8_AsStated ==
  last.op = "session_ticket" =>
    /\ last.err = "none"
    /\ last.ret =
         IF get("m_new_session_ticket") # 0
              /\ ticket(get("m_new_session_ticket")) # << >>
         THEN ticket(get("m_new_session_ticket"))
         ELSE IF get("m_client_hello") # 0
         THEN session_ticket_of(get("m_client_hello"))
         ELSE << >>

\* C9: srp_identifier() returns the identifier of the stored ClientHello when
\* the suite is valid and its key exchange is SRP_SHA; in every other case,
\* no suite chosen included, it returns the empty string and does not
\* dereference the ClientHello slot.
C9_SrpIdentifier ==
  last.op = "srp_identifier" =>
    IF suite.valid /\ suite.kex_algo = "SRP_SHA"
    THEN get("m_client_hello") # 0 =>
           /\ last.err = "none"
           /\ last.ret = srp_identifier_of(get("m_client_hello"))
    ELSE /\ last.err = "none"
         /\ last.ret = ""
         /\ "m_client_hello" \notin last.reads

\* The identifier is not returned under a suite that is not SRP.
C9_Witness ==
  /\ last.op = "srp_identifier"
  /\ suite.valid
  /\ suite.kex_algo = "RSA"
  /\ get("m_client_hello") = 2
  /\ srp_identifier_of(get("m_client_hello")) # ""
  /\ last.ret = ""

\* C10: protocol_specific_prf names SSL3-PRF under SSLv3; under TLS 1.2 and
\* DTLS 1.2 TLS-12-PRF(SHA-256) for the suite MACs MD5 and SHA-1 and
\* TLS-12-PRF(<suite MAC>) for every other MAC; TLS-PRF under TLS 1.0,
\* TLS 1.1 and DTLS 1.0 whatever the suite.
C10_PrfByVersion ==
  (last.op = "protocol_specific_prf" /\ m_version \in KnownVersions) =>
    /\ last.err = "none"
    /\ last.ret =
         CASE m_version = "SSL_V3" -> "SSL3-PRF"
           [] m_version \in { "TLS_V12", "DTLS_V12" } ->
                ( CASE suite.mac_algo \in { "MD5", "SHA-1" } -> "TLS-12-PRF(SHA-256)"
                    [] suite.mac_algo = "SHA-256" -> "TLS-12-PRF(SHA-256)"
                    [] suite.mac_algo = "SHA-384" -> "TLS-12-PRF(SHA-384)"
                    [] suite.mac_algo = "" -> "TLS-12-PRF()" )
           [] m_version \in { "TLS_V10", "TLS_V11", "DTLS_V10" } -> "TLS-PRF"

\* The override: a SHA-1 suite under TLS 1.2.
C10_Witness ==
  /\ last.op = "protocol_specific_prf"
  /\ m_version = "TLS_V12"
  /\ suite.mac_algo = "SHA-1"
  /\ last.ret = "TLS-12-PRF(SHA-256)"

(***************************************************************************)
(* Properties of the signature formats.                                    *)
(***************************************************************************)

SignCall == last.op = "choose_sig_format"

Negotiable == supports_negotiable_signature_algorithms(m_version)

\* The message choose_hash reads the advertisement from, for a role.
AdvertMsg(for_client_auth) ==
  IF for_client_auth THEN get("m_cert_req") ELSE get("m_client_hello")

\* The indices of the policy's hashes some advertised pair names together
\* with sig_algo.
Matching(policy, algos, sig_algo) ==
  { i \in DOMAIN policy :
      \E j \in DOMAIN algos : algos[j] = << policy[i], sig_algo >> }

PairsOf(algos) == { algos[j] : j \in DOMAIN algos }

\* C11: after choose_sig_format under a version with negotiable signature
\* algorithms, where the message of the role (CertificateRequest for client
\* authentication, ClientHello otherwise) advertises a non-empty list in
\* which some policy hash is paired with the key's algorithm, the hash chosen
\* is the first such hash in the policy's order; and every message that
\* advertises the same pairs in any other order gives the same hash.
C11_PolicyOrderDecides ==
  (SignCall /\ Negotiable /\ AdvertMsg(last.arg.for_client_auth) # 0)
  => LET a == last.arg
         algos == supported_algos(AdvertMsg(a.for_client_auth))
         hits == Matching(a.policy, algos, a.key)
     IN (algos # << >> /\ hits # {})
        => /\ \E i \in hits :
                /\ \A n \in hits : i <= n
                /\ last.ret.hash_algo_out = a.policy[i]
           /\ \A q \in AdvertPointers \ {0} :
                PairsOf(supported_algos(q)) = PairsOf(algos)
                => choose_hash(a.key, m_version, a.policy, a.for_client_auth,
                               q, q)
                   = HashIs(last.ret.hash_algo_out)

\* C11 witness: the counterpart lists SHA-256 before SHA-384, the policy
\* prefers SHA-384, and SHA-384 is chosen for an RSA key.
C11_Witness ==
  /\ SignCall /\ Negotiable
  /\ ~last.arg.for_client_auth
  /\ get("m_client_hello") # 0
  /\ last.arg.key = "RSA"
  /\ last.arg.policy = << "SHA-384", "SHA-256" >>
  /\ Len(supported_algos(get("m_client_hello"))) > 0
  /\ supported_algos(get("m_client_hello"))[1] = << "SHA-256", "RSA" >>
  /\ last.ret.hash_algo_out = "SHA-384"
  /\ last.ret.padding = "EMSA3(SHA-384)"

\* C12: after choose_sig_format under a version with negotiable signature
\* algorithms, where the message of the role advertises the empty list, the
\* hash chosen is "SHA-1", whatever the policy allows, whatever the key's
\* algorithm and for either role.
C12_EmptyAdvertGivesSha1 ==
  (SignCall /\ Negotiable /\ AdvertMsg(last.arg.for_client_auth) # 0)
  => (supported_algos(AdvertMsg(last.arg.for_client_auth)) = << >>
      => /\ last.ret.hash_algo_out = "SHA-1"
         /\ last.arg.key = "RSA" => last.ret.padding = "EMSA3(SHA-1)"
         /\ last.arg.key \in {"DSA", "ECDSA"}
            => last.ret.padding = "EMSA1(SHA-1)")

\* C12 witness: a client-authentication signature with an ECDSA key, the
\* CertificateRequest advertising nothing and the policy not allowing SHA-1.
C12_Witness ==
  /\ SignCall /\ Negotiable
  /\ last.arg.for_client_auth
  /\ get("m_cert_req") # 0
  /\ supported_algos(get("m_cert_req")) = << >>
  /\ last.arg.key = "ECDSA"
  /\ last.arg.policy = << "SHA-384", "SHA-256" >>
  /\ last.ret.hash_algo_out = "SHA-1"
  /\ last.ret.padding = "EMSA1(SHA-1)"

VerifyCall == last.op = "understand_sig_format"

\* The cases in which the identifiers on the wire do not fit the version.
WireIdsWrong(key, hash_algo, sig_algo) ==
  IF Negotiable
  THEN hash_algo = "" \/ sig_algo # key
  ELSE hash_algo # "" \/ sig_algo # ""

\* C13: understand_sig_format ends with Decoding_Error exactly when, under a
\* version with negotiable signature algorithms, the wire hash is empty or
\* the wire signature algorithm is not the key's algorithm name, or, under a
\* version without them, the wire hash or the wire signature algorithm is
\* not empty; it then returns no format, whatever the key's algorithm is
\* (also for a key TLS cannot use).
C13_DecodeErrors ==
  VerifyCall
  => LET a == last.arg
     IN /\ (last.err = "Decoding_Error")
           <=> WireIdsWrong(a.key, a.hash_algo, a.sig_algo)
        /\ last.err = "Decoding_Error"
           => (last.ret.padding = "" /\ last.ret.format = "")

\* C13 witness: under a version without negotiable signature algorithms a
\* signature with a non-empty signature identifier is refused with
\* Decoding_Error although the key is one TLS cannot use.
C13_Witness ==
  /\ VerifyCall
  /\ m_version = "TLS_V11"
  /\ last.arg.key = "DH"
  /\ last.arg.hash_algo = ""
  /\ last.arg.sig_algo = "DH"
  /\ last.err = "Decoding_Error"
  /\ last.ret.padding = ""

\* The padding and encoding of a key algorithm for a hash.
PaddingOf(key, hash) ==
  IF key = "RSA" THEN "EMSA3(" \o hash \o ")" ELSE "EMSA1(" \o hash \o ")"

EncodingOf(key) == IF key = "RSA" THEN "IEEE_1363" ELSE "DER_SEQUENCE"

\* The hash the verifier uses when "Raw" is used for the keys in raw_keys
\* in client authentication under SSLv3.
VerifierHash(raw_keys, key, hash_algo, for_client_auth) ==
  IF Negotiable
  THEN hash_algo
  ELSE IF for_client_auth /\ m_version = "SSL_V3" /\ key \in raw_keys
  THEN "Raw"
  ELSE IF key = "RSA" THEN "TLS.Digest.0" ELSE "SHA-1"

\* C14 as stated: a successful understand_sig_format returns EMSA3(hash) with
\* IEEE-1363 for an RSA key and EMSA1(hash) with DER-SEQUENCE for a DSA or
\* ECDSA key, where hash is the wire hash under a version with negotiable
\* signature algorithms and otherwise TLS.Digest.0 for RSA and SHA-1 for DSA
\* and ECDSA, except "Raw" for DSA keys only in client authentication under
\* SSLv3.
C14_AsStated ==
  (VerifyCall /\ last.err = "none")
  => LET a == last.arg
     IN /\ last.ret.padding
           = PaddingOf(a.key, VerifierHash({"DSA"}, a.key, a.hash_algo,
                                           a.for_client_auth))
        /\ last.ret.format = EncodingOf(a.key)

\* C14 amended: the same, with "Raw" in client authentication under SSLv3
\* for RSA keys and DSA keys, and not for ECDSA keys.
C14_VerifierFormat ==
  (VerifyCall /\ last.err = "none")
  => LET a == last.arg
     IN /\ a.key \in SignatureAlgos
        /\ last.ret.padding
           = PaddingOf(a.key, VerifierHash({"RSA", "DSA"}, a.key, a.hash_algo,
                                           a.for_client_auth))
        /\ last.ret.format = EncodingOf(a.key)

\* C14 witness: a client-authentication signature under SSLv3 is verified
\* with an RSA key as EMSA3(Raw).
C14_Witness ==
  /\ VerifyCall /\ last.err = "none"
  /\ m_version = "SSL_V3"
  /\ last.arg.for_client_auth
  /\ last.arg.key = "RSA"
  /\ last.ret.padding = "EMSA3(Raw)"
  /\ last.ret.format = "IEEE_1363"

\* The hash of the legacy rules for a key algorithm and a role.
LegacyHash(key, for_client_auth) ==
  IF for_client_auth /\ m_version = "SSL_V3"
  THEN "Raw"
  ELSE IF key = "RSA" THEN "TLS.Digest.0" ELSE "SHA-1"

\* C15: after choose_sig_format under a version without negotiable signature
\* algorithms, for an RSA, DSA or ECDSA key the call succeeds with the hash
\* "Raw" in client authentication under SSLv3 and otherwise TLS.Digest.0 for
\* RSA and SHA-1 for DSA and ECDSA, whatever the policy and the stored
\* messages are, as EMSA3(hash) with IEEE-1363 for RSA and EMSA1(hash) with
\* DER-SEQUENCE for DSA and ECDSA; no message is read and the caller's two
\* output strings are as they were before the call.
C15_LegacySignFormat ==
  (SignCall /\ ~Negotiable)
  => LET a == last.arg
     IN /\ last.ret.hash_algo_out = a.hash_algo_out
        /\ last.ret.sig_algo_out = a.sig_algo_out
        /\ last.reads = {}
        /\ a.key \in SignatureAlgos
           => /\ last.err = "none"
              /\ last.ret.padding
                 = PaddingOf(a.key, LegacyHash(a.key, a.for_client_auth))
              /\ last.ret.format = EncodingOf(a.key)

\* C15 witness: a client-authentication signature under SSLv3 with an ECDSA
\* key is EMSA1(Raw), with a policy and an advertisement that name other
\* hashes, and the output strings untouched.
C15_Witness ==
  /\ SignCall
  /\ m_version = "SSL_V3"
  /\ last.arg.for_client_auth
  /\ last.arg.key = "ECDSA"
  /\ last.arg.policy = << "SHA-384" >>
  /\ get("m_cert_req") = 2
  /\ last.ret.padding = "EMSA1(Raw)"
  /\ last.ret.format = "DER_SEQUENCE"
  /\ last.ret.hash_algo_out = CallerString
  /\ last.ret.sig_algo_out = CallerString

\* The message choose_hash reads for the last call is stored (or none is
\* read).
AdvertStored == \A member \in last.reads : get(member) # 0

\* understand_sig_format refuses every key TLS cannot use with
\* Invalid_Argument once the wire identifiers fit the version.
VerifierRefusesOtherKeys ==
  \A key \in KeyAlgos \ SignatureAlgos, hash_algo \in WireHashes,
     sig_algo \in WireSigAlgos, for_client_auth \in BOOLEAN :
    ~WireIdsWrong(key, hash_algo, sig_algo)
    => LET r == understand_sig_format_outcome(m_version, key, hash_algo,
                                              sig_algo, for_client_auth)
       IN r.err = "Invalid_Argument" /\ r.padding = "" /\ r.format = ""

\* C16 as stated: under every version, for either role and every stored
\* advertisement, choose_sig_format with a key that is not an RSA, DSA or
\* ECDSA key ends with Invalid_Argument and returns no format, and so does
\* understand_sig_format once the wire identifiers fit the version.
C16_AsStated ==
  /\ (SignCall /\ AdvertStored /\ last.arg.key \notin SignatureAlgos)
     => (last.err = "Invalid_Argument"
         /\ last.ret.padding = "" /\ last.ret.format = "")
  /\ VerifierRefusesOtherKeys

\* C16 amended: choose_sig_format with such a key always fails and returns
\* no format, with Internal_Error under a version without negotiable
\* signature algorithms unless it is client authentication under SSLv3, and
\* with Invalid_Argument in every other case; understand_sig_format as
\* stated.
C16_OtherKeysRefused ==
  /\ (SignCall /\ AdvertStored /\ last.arg.key \notin SignatureAlgos)
     => /\ last.err
           = IF ~Negotiable
                /\ ~(last.arg.for_client_auth /\ m_version = "SSL_V3")
             THEN "Internal_Error"
             ELSE "Invalid_Argument"
        /\ last.ret.padding = "" /\ last.ret.format = ""
  /\ VerifierRefusesOtherKeys

\* C16 witness: a DH key is refused with Internal_Error for a server
\* signature under TLS 1.0.
C16_Witness ==
  /\ SignCall
  /\ m_version = "TLS_V10"
  /\ ~last.arg.for_client_auth
  /\ last.arg.key = "DH"
  /\ last.err = "Internal_Error"
  /\ last.ret.padding = ""

\* C20: after choose_sig_format under a version with negotiable signature
\* algorithms, where the message of the role advertises a non-empty list,
\* the hash chosen is a hash of the policy that the list pairs with the
\* key's algorithm, or it is "SHA-1"; and where the list pairs no hash of
\* the policy with the key's algorithm, choose_hash returns "SHA-1" without
\* an error, also when neither the policy nor the list names SHA-1.
C20_ChosenHashAllowedOrSha1 ==
  (SignCall /\ Negotiable /\ AdvertMsg(last.arg.for_client_auth) # 0)
  => LET a == last.arg
         algos == supported_algos(AdvertMsg(a.for_client_auth))
         hits == Matching(a.policy, algos, a.key)
         hash == last.ret.hash_algo_out
     IN algos # << >>
        => /\ \/ \E i \in hits : a.policy[i] = hash
              \/ hash = "SHA-1"
           /\ hits = {}
              => /\ hash = "SHA-1"
                 /\ choose_hash(a.key, m_version, a.policy, a.for_client_auth,
                                get("m_client_hello"), get("m_cert_req"))
                    = HashIs("SHA-1")
                 /\ a.key \in SignatureAlgos => last.err = "none"

\* C20 witness: a DSA key, the advertisement pairing hashes with RSA and
\* ECDSA only, and SHA-1 neither allowed by the policy nor advertised.
C20_Witness ==
  /\ SignCall /\ Negotiable
  /\ ~last.arg.for_client_auth
  /\ get("m_client_hello") # 0
  /\ last.arg.key = "DSA"
  /\ last.arg.policy = << "SHA-256" >>
  /\ supported_algos(get("m_client_hello")) # << >>
  /\ \A pair \in PairsOf(supported_algos(get("m_client_hello"))) :
       pair[1] # "SHA-1" /\ pair[2] # "DSA"
  /\ last.err = "none"
  /\ last.ret.hash_algo_out = "SHA-1"
  /\ last.ret.padding = "EMSA1(SHA-1)"

(***************************************************************************)
(* Properties of the failure paths.                                        *)
(***************************************************************************)

\* C17 as stated: protocol_specific_prf called with a version that is none
\* of the known ones ends with Internal_Error and names no PRF.
C17_AsStated ==
  (last.op = "protocol_specific_prf" /\ m_version \notin KnownVersions)
  => (last.err = "Internal_Error" /\ last.ret = "")

\* The step is a confirm_transition_to(k) that fails.
ConfirmFailed(k) ==
  /\ last'.op = "confirm_transition_to"
  /\ last'.arg = k
  /\ last'.err # "none"

\* No step removes a bit from the received mask, and received_handshake_msg
\* changes neither mask.
ReceivedOnlyGrows ==
  /\ m_hand_received_mask \subseteq m_hand_received_mask'
  /\ last'.op = "received_handshake_msg"
     => UNCHANGED << m_hand_received_mask, m_hand_expecting_mask >>

\* C18 as stated: a confirm_transition_to(k) that fails leaves k's bit in the
\* received mask, so that received_handshake_msg(k) is true, and leaves the
\* expecting mask as it was, for every handshake type k; the received mask
\* only grows and received_handshake_msg changes neither mask.
C18_AsStated ==
  [][ /\ \A k \in HandshakeTypes :
           ConfirmFailed(k)
           => /\ Mask(k) \subseteq m_hand_received_mask'
              /\ received_handshake_msg_outcome(m_hand_received_mask', k).ret
              /\ m_hand_expecting_mask' = m_hand_expecting_mask
      /\ ReceivedOnlyGrows ]_vars

\* C18 amended: the same, where received_handshake_msg(k) is true afterwards
\* for every k except HANDSHAKE_NONE, which has no bit: after a failed
\* confirm_transition_to(HANDSHAKE_NONE) both masks are as before.
C18_FailedConfirmRecords ==
  [][ /\ \A k \in HandshakeTypes :
           ConfirmFailed(k)
           => /\ Mask(k) \subseteq m_hand_received_mask'
              /\ m_hand_received_mask' = BitOr(m_hand_received_mask, Mask(k))
              /\ k # "HANDSHAKE_NONE"
                 => received_handshake_msg_outcome(m_hand_received_mask', k).ret
              /\ k = "HANDSHAKE_NONE"
                 => m_hand_received_mask' = m_hand_received_mask
              /\ m_hand_expecting_mask' = m_hand_expecting_mask
      /\ ReceivedOnlyGrows ]_vars

\* C18 witness: SERVER_HELLO was rejected while another type was expected;
\* it counts as received and the expectation still stands.
C18_Witness ==
  /\ last.op = "confirm_transition_to"
  /\ last.arg = "SERVER_HELLO"
  /\ last.err = "Unexpected_Message"
  /\ ReceivedWould("SERVER_HELLO").ret
  /\ m_hand_expecting_mask = Mask("CLIENT_HELLO")

\* What understand_sig_format returns to a verifier with the same version,
\* role and key algorithm as the last choose_sig_format call, given the
\* identifiers that call emitted: the two output strings under a version
\* with negotiable signature algorithms, empty identifiers otherwise.
VerifierOfLastSignature ==
  understand_sig_format_outcome(
    m_version, last.arg.key,
    IF Negotiable THEN last.ret.hash_algo_out ELSE "",
    IF Negotiable THEN last.ret.sig_algo_out ELSE "",
    last.arg.for_client_auth)

\* C19 as stated: whenever choose_sig_format has returned a format for an
\* RSA, DSA or ECDSA key, understand_sig_format with the same version, role
\* and key algorithm and the identifiers choose_sig_format emitted raises no
\* error and returns the same padding and the same encoding.
C19_AsStated ==
  (SignCall /\ AdvertStored /\ last.err = "none"
     /\ last.arg.key \in SignatureAlgos)
  => /\ VerifierOfLastSignature.err = "none"
     /\ VerifierOfLastSignature.padding = last.ret.padding
     /\ VerifierOfLastSignature.format = last.ret.format

=============================================================================
